---- MODULE Spec2Model ----
(***************************************************************************)
(* Blogicum (blog/models.py, blog/forms.py, blog/views.py, blog/admin.py): *)
(* the record store, the feeds and the mutation views as a state machine.  *)
(*                                                                         *)
(* Time is a discrete clock.  A request is one atomic step; the variable   *)
(* resp holds the request handled by the last step and its outcome.        *)
(* Post.title, Post.text, Post.image and the created_at stamps are payload *)
(* no view branches on; they are left out of the records.                  *)
(*                                                                         *)
(* A feed is a filter followed by an annotation.  resp.filtered holds the  *)
(* rows the filter of the feed selects and resp.kind the outcome of the    *)
(* request, so that the filter can be examined even where the annotation   *)
(* makes the request fail (AnnotateRaises).                                *)
(***************************************************************************)
EXTENDS Integers, FiniteSets

\* ---- bounds of the model --------------------------------------------------
MaxRows == 3
MaxTime == 2

\* ---- the values requests are drawn from -----------------------------------
AllUsers == {"alice", "bob"}
Anonymous == "anon"
Slugs == {"news", "travel"}
LocationNames == {"moscow"}
Texts == {"a", "b"}
NoText == ""
Null == "null"
Methods == {"GET", "POST"}
Times == 0..MaxTime

VARIABLES
    clock,          \* the wall clock, timezone.now() at the moment of a request
    startTime,      \* timezone.now() as evaluated when blog/views.py was imported
    users,          \* the existing User rows (by username)
    categories,     \* slug -> [is_published]
    locations,      \* the existing Location rows (by name)
    posts,          \* pk -> Post row
    comments,       \* pk -> Comment row
    nextPostId,     \* the Post table's auto-increment
    nextCommentId,  \* the Comment table's auto-increment
    createdBy,      \* history: who issued the create request of each live record
    resp            \* the request handled by the last step and its response

vars == <<clock, startTime, users, categories, locations, posts, comments,
          nextPostId, nextCommentId, createdBy, resp>>

store == <<users, categories, locations, posts, comments,
           nextPostId, nextCommentId, createdBy>>

\* The Post and Comment rows created so far (the model stops creating at MaxRows).
RowsCreated == (nextPostId - 1) + (nextCommentId - 1)

\* ---- helpers --------------------------------------------------------------
Restrict(f, S) == [x \in S |-> f[x]]

Extend(f, k, v) == [x \in DOMAIN f \cup {k} |-> IF x = k THEN v ELSE f[x]]

NoCounts == [p \in {} |-> 0]

Idle == [op |-> "none", viewer |-> Anonymous, pk |-> 0,
         arg |-> Null, kind |-> "none", target |-> 0,
         filtered |-> {}, counts |-> NoCounts]

\* The response of a mutation view.
Reply(op, v, pk, kind, target) ==
    [op |-> op, viewer |-> v, pk |-> pk, arg |-> Null,
     kind |-> kind, target |-> target, filtered |-> {}, counts |-> NoCounts]

\* The response of a feed.
FeedReply(op, v, arg, kind, rows, counts) ==
    [op |-> op, viewer |-> v, pk |-> 0, arg |-> arg,
     kind |-> kind, target |-> 0, filtered |-> rows, counts |-> counts]

\* request.user: a session of a deleted user is anonymous.
Viewers == users \cup {Anonymous}

\* LoginRequiredMixin.dispatch: request.user.is_authenticated.
IsAuthenticated(v) == v # Anonymous

\* ---- blog/models.py -------------------------------------------------------
\* The names of Post's fields.
PostFieldNames ==
    {"id", "is_published", "created_at", "title", "text", "pub_date",
     "author", "location", "category", "image", "comment_count"}

\* Post(...) as saved by a create form: is_published and comment_count are
\* excluded from PostForm and take their defaults.
NewPost(author, f) ==
    [author |-> author, pub_date |-> f.pub_date, is_published |-> TRUE,
     category |-> f.category, location |-> f.location, comment_count |-> 0]

\* Comment.post without the cascade (on_delete=DO_NOTHING).
CommentsAfterDelete_NoPostCascade(ps, us) ==
    {c \in DOMAIN comments : comments[c].author \notin us}

\* Comment.post on_delete=CASCADE, Comment.author on_delete=CASCADE:
\* the comments that survive the deletion of posts ps and users us.
CommentsAfterDelete(ps, us) ==
    {c \in DOMAIN comments :
        comments[c].post \notin ps /\ comments[c].author \notin us}

\* Post.author on_delete=CASCADE: the posts that survive the deletion of users us.
PostsAfterUserDelete(us) ==
    {p \in DOMAIN posts : posts[p].author \notin us}

\* Post.category / Post.location on_delete=SET_NULL.
SetNullCategory(slug) ==
    [p \in DOMAIN posts |->
        IF posts[p].category = slug
        THEN [posts[p] EXCEPT !.category = Null] ELSE posts[p]]

SetNullLocation(name) ==
    [p \in DOMAIN posts |->
        IF posts[p].location = name
        THEN [posts[p] EXCEPT !.location = Null] ELSE posts[p]]

\* Count('comments'): the Comment rows whose post is p.
LiveCount(p) == Cardinality({c \in DOMAIN comments : comments[c].post = p})

\* category__is_published=True: an inner join, so a null category never matches.
CategoryPublished(p) ==
    /\ posts[p].category \in DOMAIN categories
    /\ categories[posts[p].category].is_published

\* PublishedQueryset.published: the visibility rule of the model layer.
Published(now) ==
    {p \in DOMAIN posts :
        /\ posts[p].is_published
        /\ posts[p].pub_date <= now
        /\ CategoryPublished(p)}

\* ---- blog/forms.py --------------------------------------------------------
\* What a client may submit to a post form.  "author" is a field PostForm
\* excludes: a client can still send it.
PubDateChoices == {d \in Times : d = clock \/ d = clock + 1}

PostInputs ==
    [pub_date : PubDateChoices, category : Slugs,
     location : LocationNames \cup {Null}, author : AllUsers]

\* A GET carries no form data.
NoPostForm == [pub_date |-> 0, category |-> Null, location |-> Null, author |-> Anonymous]

CommentInputs == Texts \cup {NoText}

\* PostForm.is_valid: category is required and must name an existing Category,
\* location is optional (blank=True) and must name an existing Location.
PostFormValid(f) ==
    /\ f.category \in DOMAIN categories
    /\ f.location \in locations \cup {Null}

\* CommentForm.is_valid: text is required.
CommentFormValid(text) == text # NoText

\* PostForm.save on an instance: only the form's fields are written
\* (author, comment_count and is_published are excluded).
PostFormSave(row, f) ==
    [row EXCEPT !.pub_date = f.pub_date, !.category = f.category,
                !.location = f.location]

\* CommentForm.save on an instance: fields = ('text',).
CommentFormSave(row, text) == [row EXCEPT !.text = text]

\* ---- blog/views.py: the mutation views ------------------------------------
\* A form_valid that keeps the author the client submitted.
PostCreateAuthor_FromForm(v, f) == f.author

\* PostCreateView.form_valid: form.instance.author = request.user.
PostCreateAuthor(v, f) == v

\* CommentCreateView.form_valid: author = request.user, post_id = kwargs['pk'].
NewComment(v, pk, text) == [post |-> pk, author |-> v, text |-> text]

\* A dispatch without the ownership check.
PostDenied_NoCheck(v, pk) == FALSE

\* PostUpdateDeleteMixin.dispatch: instance.author != request.user.
PostDenied(v, pk) == posts[pk].author # v

\* CommentUpdateDeleteMixin.dispatch: instance.author != request.user.
CommentDenied(v, pk) == comments[pk].author # v

\* PostUpdateDeleteMixin.dispatch: redirect('blog:post_detail', self.get_object().pk)
\* where get_object() is the Post with pk = kwargs['pk'].
PostDeniedTarget(pk) == pk

\* CommentUpdateDeleteMixin.dispatch: redirect('blog:post_detail', self.get_object().pk)
\* where get_object() is the Comment with pk = kwargs['pk'].
CommentDeniedTarget(pk) == pk

\* CommentUpdateDeleteMixin.get_success_url: self.get_object().post_id.
CommentSuccessTarget(pk) == comments[pk].post

UnchangedStore == UNCHANGED store

\* PostCreateView: LoginRequiredMixin, then CreateView.get / CreateView.post.
CreatePost(v, m, f) ==
    /\ (IsAuthenticated(v) /\ m = "POST" /\ PostFormValid(f)) => RowsCreated < MaxRows
    /\ UNCHANGED <<clock, startTime>>
    /\ IF ~IsAuthenticated(v)
       THEN /\ resp' = Reply("create_post", v, 0, "RedirectToLogin", 0)
            /\ UnchangedStore
       ELSE IF m = "GET" \/ ~PostFormValid(f)
       THEN /\ resp' = Reply("create_post", v, 0, "Form", 0)
            /\ UnchangedStore
       ELSE /\ posts' = Extend(posts, nextPostId, NewPost(PostCreateAuthor(v, f), f))
            /\ nextPostId' = nextPostId + 1
            /\ createdBy' = [createdBy EXCEPT
                                !.post = Extend(createdBy.post, nextPostId, v)]
            /\ resp' = Reply("create_post", v, nextPostId, "RedirectToProfile", 0)
            /\ UNCHANGED <<users, categories, locations, comments, nextCommentId>>

\* PostUpdateView: LoginRequiredMixin, PostUpdateDeleteMixin, UpdateView.
UpdatePost(v, pk, m, f) ==
    /\ UNCHANGED <<clock, startTime>>
    /\ IF ~IsAuthenticated(v)
       THEN /\ resp' = Reply("update_post", v, pk, "RedirectToLogin", 0)
            /\ UnchangedStore
       ELSE IF pk \notin DOMAIN posts
       THEN /\ resp' = Reply("update_post", v, pk, "NotFound", 0)
            /\ UnchangedStore
       ELSE IF PostDenied(v, pk)
       THEN /\ resp' = Reply("update_post", v, pk, "RedirectToDetail",
                             PostDeniedTarget(pk))
            /\ UnchangedStore
       ELSE IF m = "GET" \/ ~PostFormValid(f)
       THEN /\ resp' = Reply("update_post", v, pk, "Form", 0)
            /\ UnchangedStore
       ELSE /\ posts' = [posts EXCEPT ![pk] = PostFormSave(posts[pk], f)]
            /\ resp' = Reply("update_post", v, pk, "RedirectToDetail", pk)
            /\ UNCHANGED <<users, categories, locations, comments,
                           nextPostId, nextCommentId, createdBy>>

\* PostDeleteView: LoginRequiredMixin, PostUpdateDeleteMixin, DeleteView.
DeletePost(v, pk, m) ==
    /\ UNCHANGED <<clock, startTime>>
    /\ IF ~IsAuthenticated(v)
       THEN /\ resp' = Reply("delete_post", v, pk, "RedirectToLogin", 0)
            /\ UnchangedStore
       ELSE IF pk \notin DOMAIN posts
       THEN /\ resp' = Reply("delete_post", v, pk, "NotFound", 0)
            /\ UnchangedStore
       ELSE IF PostDenied(v, pk)
       THEN /\ resp' = Reply("delete_post", v, pk, "RedirectToDetail",
                             PostDeniedTarget(pk))
            /\ UnchangedStore
       ELSE IF m = "GET"
       THEN /\ resp' = Reply("delete_post", v, pk, "Form", 0)
            /\ UnchangedStore
       ELSE /\ posts' = Restrict(posts, DOMAIN posts \ {pk})
            /\ comments' = Restrict(comments, CommentsAfterDelete({pk}, {}))
            /\ createdBy' = [post |-> Restrict(createdBy.post, DOMAIN posts \ {pk}),
                             comment |-> Restrict(createdBy.comment,
                                                  CommentsAfterDelete({pk}, {}))]
            /\ resp' = Reply("delete_post", v, pk, "RedirectToProfile", 0)
            /\ UNCHANGED <<users, categories, locations, nextPostId, nextCommentId>>

\* CommentCreateView: its own dispatch looks the post up, then
\* LoginRequiredMixin.dispatch, then CreateView.get / CreateView.post.
CreateComment(v, pk, m, text) ==
    /\ (pk \in DOMAIN posts /\ IsAuthenticated(v) /\ m = "POST" /\ CommentFormValid(text))
          => RowsCreated < MaxRows
    /\ UNCHANGED <<clock, startTime>>
    /\ IF pk \notin DOMAIN posts
       THEN /\ resp' = Reply("create_comment", v, pk, "NotFound", 0)
            /\ UnchangedStore
       ELSE IF ~IsAuthenticated(v)
       THEN /\ resp' = Reply("create_comment", v, pk, "RedirectToLogin", 0)
            /\ UnchangedStore
       ELSE IF m = "GET" \/ ~CommentFormValid(text)
       THEN /\ resp' = Reply("create_comment", v, pk, "Form", 0)
            /\ UnchangedStore
       ELSE /\ comments' = Extend(comments, nextCommentId, NewComment(v, pk, text))
            /\ nextCommentId' = nextCommentId + 1
            /\ createdBy' = [createdBy EXCEPT
                                !.comment = Extend(createdBy.comment, nextCommentId, v)]
            /\ resp' = Reply("create_comment", v, pk, "RedirectToDetail", pk)
            /\ UNCHANGED <<users, categories, locations, posts, nextPostId>>

\* CommentUpdateView: LoginRequiredMixin, CommentUpdateDeleteMixin, UpdateView.
UpdateComment(v, pk, m, text) ==
    /\ UNCHANGED <<clock, startTime>>
    /\ IF ~IsAuthenticated(v)
       THEN /\ resp' = Reply("update_comment", v, pk, "RedirectToLogin", 0)
            /\ UnchangedStore
       ELSE IF pk \notin DOMAIN comments
       THEN /\ resp' = Reply("update_comment", v, pk, "NotFound", 0)
            /\ UnchangedStore
       ELSE IF CommentDenied(v, pk)
       THEN /\ resp' = Reply("update_comment", v, pk, "RedirectToDetail",
                             CommentDeniedTarget(pk))
            /\ UnchangedStore
       ELSE IF m = "GET" \/ ~CommentFormValid(text)
       THEN /\ resp' = Reply("update_comment", v, pk, "Form", 0)
            /\ UnchangedStore
       ELSE /\ comments' = [comments EXCEPT ![pk] = CommentFormSave(comments[pk], text)]
            /\ resp' = Reply("update_comment", v, pk, "RedirectToDetail",
                             CommentSuccessTarget(pk))
            /\ UNCHANGED <<users, categories, locations, posts,
                           nextPostId, nextCommentId, createdBy>>

\* CommentDeleteView: LoginRequiredMixin, CommentUpdateDeleteMixin, DeleteView.
\* DeleteView.form_valid takes the success url before it deletes the row.
DeleteComment(v, pk, m) ==
    /\ UNCHANGED <<clock, startTime>>
    /\ IF ~IsAuthenticated(v)
       THEN /\ resp' = Reply("delete_comment", v, pk, "RedirectToLogin", 0)
            /\ UnchangedStore
       ELSE IF pk \notin DOMAIN comments
       THEN /\ resp' = Reply("delete_comment", v, pk, "NotFound", 0)
            /\ UnchangedStore
       ELSE IF CommentDenied(v, pk)
       THEN /\ resp' = Reply("delete_comment", v, pk, "RedirectToDetail",
                             CommentDeniedTarget(pk))
            /\ UnchangedStore
       ELSE IF m = "GET"
       THEN /\ resp' = Reply("delete_comment", v, pk, "Form", 0)
            /\ UnchangedStore
       ELSE /\ comments' = Restrict(comments, DOMAIN comments \ {pk})
            /\ createdBy' = [createdBy EXCEPT
                                !.comment = Restrict(createdBy.comment,
                                                     DOMAIN comments \ {pk})]
            /\ resp' = Reply("delete_comment", v, pk, "RedirectToDetail",
                             CommentSuccessTarget(pk))
            /\ UNCHANGED <<users, categories, locations, posts,
                           nextPostId, nextCommentId>>

\* ---- blog/views.py: the feeds ----------------------------------------------
\* pub_date__lt=<now>: the date lookup the three feeds use.
DateFilter(pub_date, now) == pub_date < now

\* PostListView.queryset: a class attribute, so timezone.now() is the time
\* the module was imported; ListView.get_queryset re-runs the same query.
HomeRows ==
    {p \in DOMAIN posts :
        /\ posts[p].is_published
        /\ DateFilter(posts[p].pub_date, startTime)
        /\ CategoryPublished(p)}

\* CategoryDetailView.get_queryset, line 119: get_object_or_404(Category,
\* slug=slug, is_published=True).
CategoryFound(slug) ==
    slug \in DOMAIN categories /\ categories[slug].is_published

\* CategoryDetailView.get_queryset, lines 124-127.
CategoryRows(slug, now) ==
    {p \in DOMAIN posts :
        /\ posts[p].is_published
        /\ DateFilter(posts[p].pub_date, now)
        /\ posts[p].category = slug}

\* UserListView.get_queryset.
ProfileRows(v, username, now) ==
    IF v = username
    THEN {p \in DOMAIN posts : posts[p].author = username}
    ELSE {p \in DOMAIN posts :
            /\ posts[p].is_published
            /\ DateFilter(posts[p].pub_date, now)
            /\ posts[p].author = username}

\* .annotate(comment_count=Count('comments')): the alias the feeds annotate with.
AnnotationAlias == "comment_count"

\* QuerySet.annotate raises ValueError ("The annotation ... conflicts with a
\* field on the model") when the alias is the name of a field of the model.
AnnotateRaises == AnnotationAlias \in PostFieldNames

\* The annotation of the rows of a feed.
Annotation(rows) ==
    IF AnnotateRaises THEN NoCounts ELSE [p \in rows |-> LiveCount(p)]

\* PostListView.
ListHome(v) ==
    /\ resp' = FeedReply("list_home", v, Null,
                         IF AnnotateRaises THEN "ValueError" ELSE "Page",
                         HomeRows, Annotation(HomeRows))
    /\ UNCHANGED <<clock, startTime, store>>

\* CategoryDetailView: the category lookup comes before the query is built.
ListCategory(v, slug) ==
    /\ resp' = IF ~CategoryFound(slug)
               THEN FeedReply("list_category", v, slug, "NotFound", {}, NoCounts)
               ELSE FeedReply("list_category", v, slug,
                              IF AnnotateRaises THEN "ValueError" ELSE "Page",
                              CategoryRows(slug, clock),
                              Annotation(CategoryRows(slug, clock)))
    /\ UNCHANGED <<clock, startTime, store>>

\* UserListView: get_queryset builds the query, then get_context_data looks
\* the profile up (get_object_or_404).
ListProfile(v, username) ==
    /\ resp' = IF AnnotateRaises
               THEN FeedReply("list_profile", v, username, "ValueError",
                              ProfileRows(v, username, clock), NoCounts)
               ELSE IF username \notin users
               THEN FeedReply("list_profile", v, username, "NotFound", {}, NoCounts)
               ELSE FeedReply("list_profile", v, username, "Page",
                              ProfileRows(v, username, clock),
                              Annotation(ProfileRows(v, username, clock)))
    /\ UNCHANGED <<clock, startTime, store>>

\* ---- blog/admin.py and the store ------------------------------------------
\* PostAdimn.list_editable: is_published.
AdminSetPostPublished(pk, b) ==
    /\ pk \in DOMAIN posts
    /\ posts[pk].is_published # b
    /\ posts' = [posts EXCEPT ![pk].is_published = b]
    /\ resp' = Idle
    /\ UNCHANGED <<clock, startTime, users, categories, locations, comments,
                   nextPostId, nextCommentId, createdBy>>

\* PostAdimn.list_editable: comment_count, the stored counter.
AdminSetCommentCount(pk, n) ==
    /\ pk \in DOMAIN posts
    /\ posts[pk].comment_count # n
    /\ posts' = [posts EXCEPT ![pk].comment_count = n]
    /\ resp' = Idle
    /\ UNCHANGED <<clock, startTime, users, categories, locations, comments,
                   nextPostId, nextCommentId, createdBy>>

\* CategoryAdmin.list_editable: is_published.
AdminSetCategoryPublished(slug, b) ==
    /\ slug \in DOMAIN categories
    /\ categories[slug].is_published # b
    /\ categories' = [categories EXCEPT ![slug].is_published = b]
    /\ resp' = Idle
    /\ UNCHANGED <<clock, startTime, users, locations, posts, comments,
                   nextPostId, nextCommentId, createdBy>>

\* CategoryAdmin add: slug is unique.
AdminCreateCategory(slug, b) ==
    /\ slug \notin DOMAIN categories
    /\ categories' = Extend(categories, slug, [is_published |-> b])
    /\ resp' = Idle
    /\ UNCHANGED <<clock, startTime, users, locations, posts, comments,
                   nextPostId, nextCommentId, createdBy>>

\* Deleting a Category: Post.category is on_delete=SET_NULL.
AdminDeleteCategory(slug) ==
    /\ slug \in DOMAIN categories
    /\ categories' = Restrict(categories, DOMAIN categories \ {slug})
    /\ posts' = SetNullCategory(slug)
    /\ resp' = Idle
    /\ UNCHANGED <<clock, startTime, users, locations, comments,
                   nextPostId, nextCommentId, createdBy>>

\* LocationAdmin add.
AdminCreateLocation(name) ==
    /\ name \notin locations
    /\ locations' = locations \cup {name}
    /\ resp' = Idle
    /\ UNCHANGED <<clock, startTime, users, categories, posts, comments,
                   nextPostId, nextCommentId, createdBy>>

\* Deleting a Location: Post.location is on_delete=SET_NULL.
AdminDeleteLocation(name) ==
    /\ name \in locations
    /\ locations' = locations \ {name}
    /\ posts' = SetNullLocation(name)
    /\ resp' = Idle
    /\ UNCHANGED <<clock, startTime, users, categories, comments,
                   nextPostId, nextCommentId, createdBy>>

\* Deleting a User: Post.author and Comment.author are on_delete=CASCADE,
\* and Comment.post is on_delete=CASCADE for the comments of the deleted posts.
DeleteUser(u) ==
    /\ u \in users
    /\ users' = users \ {u}
    /\ posts' = Restrict(posts, PostsAfterUserDelete({u}))
    /\ comments' = Restrict(comments,
                            CommentsAfterDelete(DOMAIN posts \ PostsAfterUserDelete({u}),
                                                {u}))
    /\ createdBy' = [post |-> Restrict(createdBy.post, PostsAfterUserDelete({u})),
                     comment |-> Restrict(createdBy.comment,
                            CommentsAfterDelete(DOMAIN posts \ PostsAfterUserDelete({u}),
                                                {u}))]
    /\ resp' = Idle
    /\ UNCHANGED <<clock, startTime, categories, locations,
                   nextPostId, nextCommentId>>

\* ---- the clock and the server process -------------------------------------
Tick ==
    /\ clock < MaxTime
    /\ clock' = clock + 1
    /\ resp' = Idle
    /\ UNCHANGED <<startTime, store>>

\* The server process starts again: blog/views.py is imported again and the
\* class body of PostListView evaluates timezone.now() anew.
Restart ==
    /\ startTime # clock
    /\ startTime' = clock
    /\ resp' = Idle
    /\ UNCHANGED <<clock, store>>

\* ---- the state machine ----------------------------------------------------
EmptyTable == [x \in {} |-> 0]

Init ==
    /\ clock = 0
    /\ startTime = 0
    /\ users = AllUsers
    /\ categories = [s \in {"travel"} |-> [is_published |-> TRUE]]
    /\ locations = {}
    /\ posts = EmptyTable
    /\ comments = EmptyTable
    /\ nextPostId = 1
    /\ nextCommentId = 1
    /\ createdBy = [post |-> EmptyTable, comment |-> EmptyTable]
    /\ resp = Idle

\* The primary keys a request may name: those of the live rows and one that
\* names no row.
PostIds == DOMAIN posts \cup {nextPostId}
CommentIds == DOMAIN comments \cup {nextCommentId}

ReqCreatePost ==
    \E v \in Viewers :
        \/ CreatePost(v, "GET", NoPostForm)
        \/ \E f \in PostInputs : CreatePost(v, "POST", f)
ReqUpdatePost ==
    \E v \in Viewers, pk \in PostIds :
        \/ UpdatePost(v, pk, "GET", NoPostForm)
        \/ \E f \in PostInputs : UpdatePost(v, pk, "POST", f)
ReqDeletePost == \E v \in Viewers, pk \in PostIds, m \in Methods : DeletePost(v, pk, m)
ReqCreateComment ==
    \E v \in Viewers, pk \in PostIds :
        \/ CreateComment(v, pk, "GET", NoText)
        \/ \E t \in CommentInputs : CreateComment(v, pk, "POST", t)
ReqUpdateComment ==
    \E v \in Viewers, pk \in CommentIds :
        \/ UpdateComment(v, pk, "GET", NoText)
        \/ \E t \in CommentInputs : UpdateComment(v, pk, "POST", t)
ReqDeleteComment ==
    \E v \in Viewers, pk \in CommentIds, m \in Methods : DeleteComment(v, pk, m)
ReqListHome == \E v \in Viewers : ListHome(v)
ReqListCategory == \E v \in Viewers, s \in Slugs : ListCategory(v, s)
ReqListProfile == \E v \in Viewers, u \in AllUsers : ListProfile(v, u)
OpSetPostPublished == \E pk \in PostIds, b \in BOOLEAN : AdminSetPostPublished(pk, b)
OpSetCommentCount == \E pk \in PostIds, n \in 0..MaxRows : AdminSetCommentCount(pk, n)
OpSetCategoryPublished == \E s \in Slugs, b \in BOOLEAN : AdminSetCategoryPublished(s, b)
OpCreateCategory == \E s \in Slugs, b \in BOOLEAN : AdminCreateCategory(s, b)
OpDeleteCategory == \E s \in Slugs : AdminDeleteCategory(s)
OpCreateLocation == \E n \in LocationNames : AdminCreateLocation(n)
OpDeleteLocation == \E n \in LocationNames : AdminDeleteLocation(n)
OpDeleteUser == \E u \in AllUsers : DeleteUser(u)

Next ==
    \/ ReqCreatePost \/ ReqUpdatePost \/ ReqDeletePost
    \/ ReqCreateComment \/ ReqUpdateComment \/ ReqDeleteComment
    \/ ReqListHome \/ ReqListCategory \/ ReqListProfile
    \/ OpSetPostPublished \/ OpSetCommentCount \/ OpSetCategoryPublished
    \/ OpCreateCategory \/ OpDeleteCategory
    \/ OpCreateLocation \/ OpDeleteLocation \/ OpDeleteUser
    \/ Tick \/ Restart

\* The whole machine.  The claims are checked under the environments below,
\* each of which drives these views with one kind of traffic.
Spec == Init /\ [][Next]_vars

\* ---- environments ---------------------------------------------------------
\* Each specification below runs the views against one kind of traffic.

\* Forms as a logged-in client submits them with a valid category and no location.
PlainPostInputs == {f \in PostInputs : f.category = "travel" /\ f.location = Null}

\* Members writing posts and comments.
MemberCreatePost ==
    \E v \in users, f \in PlainPostInputs : f.author = v /\ CreatePost(v, "POST", f)
MemberCreateComment ==
    \E v \in users, pk \in DOMAIN posts : CreateComment(v, pk, "POST", "a")

\* The feeds under scheduling, unpublishing, commenting and the passing of time.
NextFeed ==
    \/ MemberCreatePost \/ MemberCreateComment
    \/ ReqListHome \/ ReqListCategory \/ ReqListProfile
    \/ OpSetPostPublished \/ OpSetCategoryPublished
    \/ Tick \/ Restart

SpecFeed == Init /\ [][NextFeed]_vars

\* The comment counts of the feeds while comments come and go and the stored
\* counter is edited.
AuthorDeleteComment ==
    \E pk \in DOMAIN comments : DeleteComment(comments[pk].author, pk, "POST")
AuthorDeletePost ==
    \E pk \in DOMAIN posts : DeletePost(posts[pk].author, pk, "POST")
NextCount ==
    \/ MemberCreatePost \/ MemberCreateComment
    \/ AuthorDeleteComment \/ AuthorDeletePost \/ OpDeleteUser
    \/ OpSetCommentCount
    \/ ReqListHome \/ ReqListCategory \/ ReqListProfile
    \/ Tick

SpecCount == Init /\ [][NextCount]_vars

\* The mutation views under requests of every viewer.  A POST to a post form
\* also submits an author other than the sender (a field the form excludes).
\* Members send GET and POST requests; an anonymous client sends POST requests.
TamperedPostInputs(v) == {f \in PlainPostInputs : f.author # v}
AnonPostForm == [pub_date |-> clock, category |-> "travel", location |-> Null,
                 author |-> "alice"]

AnyCreatePost ==
    \/ \E v \in users :
        \/ CreatePost(v, "GET", NoPostForm)
        \/ \E f \in TamperedPostInputs(v) : CreatePost(v, "POST", f)
    \/ CreatePost(Anonymous, "POST", AnonPostForm)
AnyUpdatePost ==
    \E pk \in PostIds :
        \/ \E v \in users :
            \/ UpdatePost(v, pk, "GET", NoPostForm)
            \/ \E f \in TamperedPostInputs(v) : UpdatePost(v, pk, "POST", f)
        \/ UpdatePost(Anonymous, pk, "POST", AnonPostForm)
AnyDeletePost ==
    \E pk \in PostIds :
        \/ \E v \in users, m \in Methods : DeletePost(v, pk, m)
        \/ DeletePost(Anonymous, pk, "POST")
AnyCreateComment ==
    \E pk \in PostIds :
        \/ \E v \in users :
            \/ CreateComment(v, pk, "GET", NoText)
            \/ \E t \in Texts : CreateComment(v, pk, "POST", t)
        \/ CreateComment(Anonymous, pk, "POST", "a")
AnyUpdateComment ==
    \E pk \in CommentIds :
        \/ \E v \in users :
            \/ UpdateComment(v, pk, "GET", NoText)
            \/ \E t \in Texts : UpdateComment(v, pk, "POST", t)
        \/ UpdateComment(Anonymous, pk, "POST", "a")
AnyDeleteComment ==
    \E pk \in CommentIds :
        \/ \E v \in users, m \in Methods : DeleteComment(v, pk, m)
        \/ DeleteComment(Anonymous, pk, "POST")
NextAuth ==
    \/ AnyCreatePost \/ AnyUpdatePost \/ AnyDeletePost
    \/ AnyCreateComment \/ AnyUpdateComment \/ AnyDeleteComment

SpecAuth == Init /\ [][NextAuth]_vars

\* Creation and deletion of rows.
RefCreatePost ==
    \E v \in users, f \in PostInputs :
        f.author = v /\ f.pub_date = clock /\ CreatePost(v, "POST", f)
RefCreateCategory == AdminCreateCategory("travel", TRUE)
RefDeleteCategory == AdminDeleteCategory("travel")
NextRef ==
    \/ RefCreatePost \/ MemberCreateComment
    \/ AuthorDeletePost \/ AuthorDeleteComment
    \/ RefCreateCategory \/ RefDeleteCategory
    \/ OpCreateLocation \/ OpDeleteLocation \/ OpDeleteUser

SpecRef == Init /\ [][NextRef]_vars

\* ---- the claims ------------------------------------------------------------
FeedOps == {"list_home", "list_category", "list_profile"}
PostMutations == {"update_post", "delete_post"}
CommentMutations == {"update_comment", "delete_comment"}
MutationOps ==
    {"create_post", "create_comment"} \cup PostMutations \cup CommentMutations

\* visible(P) of the specification, at time now.
Visible(p, now) ==
    /\ posts[p].is_published
    /\ posts[p].pub_date <= now
    /\ posts[p].category \in DOMAIN categories
    /\ categories[posts[p].category].is_published

\* C1: the rows of a home feed request are exactly the posts that are
\* published, dated at or before the time of the request, and in a published
\* category.
C1_HomeFeedIsVisibleNow ==
    resp.op = "list_home" =>
        resp.filtered = {p \in DOMAIN posts : Visible(p, clock)}

\* C2: the rows of a profile feed are all posts of the profile's user when the
\* viewer is that user, and otherwise exactly that user's visible posts.
C2_ProfileFeed ==
    resp.op = "list_profile" =>
        resp.filtered =
            IF resp.viewer = resp.arg
            THEN {p \in DOMAIN posts : posts[p].author = resp.arg}
            ELSE {p \in DOMAIN posts :
                    posts[p].author = resp.arg /\ Visible(p, clock)}

\* C3: an update or delete request on a post or comment by a logged-in viewer
\* who is not its author changes no row of the store.
C3_NonAuthorNeverWrites ==
    [][/\ ( /\ resp'.op \in PostMutations
            /\ IsAuthenticated(resp'.viewer)
            /\ resp'.pk \in DOMAIN posts
            /\ posts[resp'.pk].author # resp'.viewer ) => UNCHANGED store
       /\ ( /\ resp'.op \in CommentMutations
            /\ IsAuthenticated(resp'.viewer)
            /\ resp'.pk \in DOMAIN comments
            /\ comments[resp'.pk].author # resp'.viewer ) => UNCHANGED store
      ]_vars

\* C3 witness: bob was deflected from updating a post of alice, while a
\* comment of alice is in the store.
C3_Witness ==
    /\ resp.op = "update_post"
    /\ resp.viewer = "bob"
    /\ resp.pk \in DOMAIN posts
    /\ posts[resp.pk].author = "alice"
    /\ resp.kind = "RedirectToDetail"
    /\ \E c \in DOMAIN comments : comments[c].author = "alice"

\* C4: a logged-in non-author who requests update or delete is redirected to
\* the detail view of the post itself, or of the post the comment belongs to.
C4_DeniedRedirectTarget ==
    /\ ( /\ resp.op \in PostMutations
         /\ IsAuthenticated(resp.viewer)
         /\ resp.pk \in DOMAIN posts
         /\ posts[resp.pk].author # resp.viewer )
       => (resp.kind = "RedirectToDetail" /\ resp.target = resp.pk)
    /\ ( /\ resp.op \in CommentMutations
         /\ IsAuthenticated(resp.viewer)
         /\ resp.pk \in DOMAIN comments
         /\ comments[resp.pk].author # resp.viewer )
       => (resp.kind = "RedirectToDetail" /\ resp.target = comments[resp.pk].post)

\* C5: every mutation request of an anonymous viewer is answered with the
\* redirect to login, whether or not the record it names exists.
C5_AnonymousGetsLogin ==
    (resp.op \in MutationOps /\ resp.viewer = Anonymous)
        => resp.kind = "RedirectToLogin"

\* C6: a category feed is NotFound when the slug names no category or an
\* unpublished one; otherwise its rows are exactly the published posts of
\* that category dated at or before the time of the request.
C6_CategoryFeed ==
    resp.op = "list_category" =>
        IF resp.arg \in DOMAIN categories /\ categories[resp.arg].is_published
        THEN /\ resp.kind # "NotFound"
             /\ resp.filtered =
                    {p \in DOMAIN posts :
                        /\ posts[p].category = resp.arg
                        /\ posts[p].is_published
                        /\ posts[p].pub_date <= clock}
        ELSE resp.kind = "NotFound"

\* C7: every post a feed returns carries the number of Comment rows that
\* reference it, whatever its stored comment_count.
C7_LiveCommentCount ==
    (resp.op \in FeedOps /\ resp.kind # "NotFound") =>
        /\ resp.kind = "Page"
        /\ DOMAIN resp.counts = resp.filtered
        /\ \A p \in resp.filtered : resp.counts[p] = LiveCount(p)

\* C8: a published post in a published category whose pub_date equals the
\* time of the request is in the home feed, in its category's feed and in
\* its author's profile feed as seen by another viewer.
C8_InclusiveBoundary ==
    \A p \in DOMAIN posts :
        (Visible(p, clock) /\ posts[p].pub_date = clock) =>
            /\ resp.op = "list_home" => p \in resp.filtered
            /\ (resp.op = "list_category" /\ resp.arg = posts[p].category)
                  => p \in resp.filtered
            /\ ( /\ resp.op = "list_profile"
                 /\ resp.arg = posts[p].author
                 /\ resp.viewer # resp.arg ) => p \in resp.filtered

\* Every Comment references a live Post and a live User, every Post a live User.
RefIntegrity ==
    /\ \A p \in DOMAIN posts : posts[p].author \in users
    /\ \A c \in DOMAIN comments :
        comments[c].post \in DOMAIN posts /\ comments[c].author \in users

\* What a deletion removes and what it leaves.
DeleteEffects ==
    /\ (resp'.op = "delete_post" /\ DOMAIN posts' # DOMAIN posts) =>
          /\ posts' = Restrict(posts, DOMAIN posts \ {resp'.pk})
          /\ comments' = Restrict(comments,
                {c \in DOMAIN comments : comments[c].post # resp'.pk})
    /\ (users' # users) =>
          \E u \in users :
            /\ users' = users \ {u}
            /\ posts' = Restrict(posts, {p \in DOMAIN posts : posts[p].author # u})
            /\ comments' = Restrict(comments,
                  {c \in DOMAIN comments :
                      /\ comments[c].author # u
                      /\ posts[comments[c].post].author # u})
    /\ (DOMAIN categories' # DOMAIN categories \/ locations' # locations) =>
          /\ DOMAIN posts' = DOMAIN posts
          /\ comments' = comments
          /\ \A p \in DOMAIN posts :
                /\ posts'[p].author = posts[p].author
                /\ posts'[p].category =
                      IF posts[p].category \in DOMAIN categories'
                      THEN posts[p].category ELSE Null
                /\ posts'[p].location =
                      IF posts[p].location \in locations'
                      THEN posts[p].location ELSE Null

\* C9: referential integrity holds in every state; deleting a post deletes
\* exactly its comments, deleting a user exactly that user's posts (with
\* their comments) and comments, and deleting a category or location deletes
\* no post and nulls the reference of each dependent post.
C9_ReferentialIntegrity == []RefIntegrity /\ [][DeleteEffects]_vars

\* C9 witness: a user and the category are gone, a post of the other user
\* survives with its category reference nulled, and a comment survives.
C9_Witness ==
    /\ users = {"alice"}
    /\ DOMAIN categories = {}
    /\ nextPostId = 3
    /\ \E p \in DOMAIN posts : posts[p].category = Null /\ posts[p].author = "alice"
    /\ Cardinality(DOMAIN posts) = 1
    /\ DOMAIN comments # {}

\* C10: a created post or comment is authored by the requesting viewer (a
\* comment belongs to the post the request names, which must exist, else
\* NotFound and no write); no request changes the author of a row or the post
\* of a comment; only the viewer who created a row updates or deletes it.
C10_OwnershipFixedAtCreation ==
    [][/\ (resp'.op = "create_post" /\ nextPostId' # nextPostId) =>
              posts'[nextPostId].author = resp'.viewer
       /\ (resp'.op = "create_comment" /\ nextCommentId' # nextCommentId) =>
              /\ resp'.pk \in DOMAIN posts
              /\ comments'[nextCommentId].author = resp'.viewer
              /\ comments'[nextCommentId].post = resp'.pk
       /\ (resp'.op = "create_comment" /\ resp'.pk \notin DOMAIN posts) =>
              (resp'.kind = "NotFound" /\ UNCHANGED store)
       /\ \A p \in DOMAIN posts \cap DOMAIN posts' :
              posts'[p].author = posts[p].author
       /\ \A c \in DOMAIN comments \cap DOMAIN comments' :
              /\ comments'[c].author = comments[c].author
              /\ comments'[c].post = comments[c].post
       /\ (resp'.op \in PostMutations /\ posts' # posts) =>
              resp'.viewer = createdBy.post[resp'.pk]
       /\ (resp'.op \in CommentMutations /\ comments' # comments) =>
              resp'.viewer = createdBy.comment[resp'.pk]
      ]_vars

\* C10 witness: the creator of a post has updated it to a later date, and the
\* post is still authored by its creator.
C10_Witness ==
    /\ resp.op = "update_post"
    /\ resp.kind = "RedirectToDetail"
    /\ resp.pk \in DOMAIN posts
    /\ resp.viewer = createdBy.post[resp.pk]
    /\ posts[resp.pk].author = resp.viewer
    /\ posts[resp.pk].pub_date = 1
    /\ \E c \in DOMAIN comments : comments[c].author # posts[comments[c].post].author

====
